---- MODULE Spec2Model ----
(***************************************************************************)
(* The 56K modem simulator of server.js (modemThrottle): a middleware that  *)
(* replaces res.write / res.end of a response by buffering versions and     *)
(* drips the buffered body to the original methods from a chain of timers.  *)
(*                                                                          *)
(* Bytes are integers 0..255, a Buffer is a sequence of bytes, a JavaScript *)
(* string is a sequence of code points.  The clock `now` is in             *)
(* milliseconds; a timer fires when the clock reaches its due time.         *)
(***************************************************************************)
EXTENDS Integers, Sequences, FiniteSets, TLC

\* ------------------------------------------------------------------ bounds
NReq == 2            \* response objects of the model
MaxWrites == 2       \* res.write calls the handlers make in one run
MaxClock == 30       \* latest time at which the clock advances without a timer
ElapseStep == 30     \* how far the clock advances between two handler steps
MaxEnds == 2         \* res.end calls made on one response, where more than one is allowed

Reqs == 1 .. NReq

\* ------------------------------------------------------ configuration (l. 46-50)
MODEM_BPS == 56000
MODEM_BYTES_PER_SEC == MODEM_BPS \div 8
MODEM_LATENCY == 120
CHUNK_INTERVAL == 50
\* (fault: the interval is turned into seconds before the product is taken)
CHUNK_SIZE_Truncated == MODEM_BYTES_PER_SEC * (CHUNK_INTERVAL \div 1000)
CHUNK_SIZE == (MODEM_BYTES_PER_SEC * CHUNK_INTERVAL) \div 1000

\* ------------------------------------------------------------ JS values
Unset == "<unset>"                      \* an environment variable or query key that is absent

Undefined == [kind |-> "undefined", val |-> <<>>]
Str(s) == [kind |-> "string", val |-> s]
Buf(b) == [kind |-> "buffer", val |-> b]

\* JS truthiness of a chunk argument: undefined and '' are falsy, a Buffer
\* (an object) is truthy whatever its length.
Truthy(chunk) ==
    \/ chunk.kind = "buffer"
    \/ chunk.kind = "string" /\ Len(chunk.val) > 0

\* chunk.length: UTF-16 code units of a string, bytes of a Buffer.
Length(chunk) == Len(chunk.val)

\* The bytes of one code point in UTF-8 (code points below 0x800).
Utf8Bytes(c) ==
    IF c < 128 THEN <<c>>
    ELSE <<192 + (c \div 64), 128 + (c % 64)>>

\* The UTF-8 bytes of a string: the bytes of its code points, in order
\* (computed by halves).
RECURSIVE Utf8Encode(_)
Utf8Encode(s) ==
    IF Len(s) = 0 THEN <<>>
    ELSE IF Len(s) = 1 THEN Utf8Bytes(s[1])
    ELSE LET h == Len(s) \div 2
         IN  Utf8Encode(SubSeq(s, 1, h)) \o Utf8Encode(SubSeq(s, h + 1, Len(s)))

\* latin1 keeps the low byte of every code unit.
Latin1Encode(s) == [i \in 1 .. Len(s) |-> s[i] % 256]

\* Buffer.from(string, encoding)
BufferFrom(s, encoding) ==
    IF encoding = "latin1" THEN Latin1Encode(s) ELSE Utf8Encode(s)

\* Buffer.isBuffer(chunk) ? chunk : Buffer.from(chunk, encoding || 'utf8')
ToBuffer(chunk, encoding) ==
    IF chunk.kind = "buffer" THEN chunk.val
    ELSE BufferFrom(chunk.val, IF encoding = Unset THEN "utf8" ELSE encoding)

\* Buffer.concat(list)
RECURSIVE BufferConcat(_)
BufferConcat(list) ==
    IF list = <<>> THEN <<>>
    ELSE Head(list) \o BufferConcat(Tail(list))

\* buf.slice(start, end): bytes start .. end-1, zero based.
Slice(buf, start, end) == SubSeq(buf, start + 1, end)

Min(a, b) == IF a <= b THEN a ELSE b

\* ------------------------------------------------------------ inputs
\* The chunk values a handler passes to res.write / res.end: nothing, the
\* empty string, an empty Buffer, a 199 character string holding one
\* non-ASCII character (200 bytes in UTF-8, 199 in latin1) and a Buffer of
\* 350 bytes.  The seed makes the content of one response differ from the
\* content of another.
Text(seed) == [i \in 1 .. 199 |-> IF i = 100 THEN 233 ELSE 32 + ((seed + i) % 95)]
Block(seed) == [i \in 1 .. 350 |-> (seed * 16 + i * 7) % 256]

ChunkValues(seed) == {Undefined, Str(<<>>), Buf(<<>>), Str(Text(seed)), Buf(Block(seed))}
Encodings == {Unset, "latin1"}
TurboValues == {Unset, "1", "0"}
VercelValues == {Unset, "1"}
ModemModeValues == {Unset, "false"}

\* The environment in full: VERCEL absent, empty or set by the platform;
\* MODEM_MODE absent, 'false', or something else.
EnvVercelValues == {Unset, "", "1"}
EnvModemModeValues == {Unset, "false", "FALSE", "0"}

\* A file that does not exist; an existing file is <<content>>.
NoFile == <<>>
File(content) == <<content>>

\* The body Express writes for a redirect ("Found").
RedirectBody == Str(<<70, 111, 117, 110, 100>>)

\* ------------------------------------------------------------ state
VARIABLES
    envVERCEL,      \* process.env.VERCEL
    envMODEM_MODE,  \* process.env.MODEM_MODE
    now,            \* the clock, ms
    phase,          \* per response: "idle" (no request yet), "open" (handler running), "ended"
    turbo,          \* req.query.turbo
    wrapped,        \* res.write / res.end are the buffering versions
    chunks,         \* the closure's chunks array
    body,           \* the closure's body (Buffer.concat(chunks)), set by res.end
    offset,         \* the closure's offset
    timers,         \* due times of the pending setTimeout(drip, ...) calls
    sink,           \* calls of the original res.write: [data, at]
    ended,          \* times of the calls of the original res.end
    closed,         \* the client has closed the connection
    writeRet,       \* what the last res.write call of the handler returned
    sent,           \* history: the bytes the handler passed to write / end / redirect
    nwrites,        \* history: res.write calls of the handler
    endAt,          \* history: times of the calls of the wrapper's res.end
    armed,          \* history: setTimeout calls
    redirected,     \* history: the handler called res.redirect
    ticksLate,      \* history: drip ticks run after the connection closed
    writesLate,     \* history: original writes made after the connection closed
    counterFile,    \* COUNTER_FILE: no file, or its text
    entriesFile,    \* ENTRIES_FILE: no file, or the JSON array it holds
    status,         \* res.statusCode
    reqBody,        \* req.body of a form submission: its place in Forms, 0 for none
    route,          \* history: the route that handled the request
    shown,          \* history: the count incrementCounter returned to the request
    submissions,    \* history: the form submissions handled, in order: [r, at]
    counter0,       \* history: COUNTER_FILE when the server started
    entries0        \* history: ENTRIES_FILE when the server started

\* the files and what the route handlers keep
app == <<counterFile, entriesFile, status, reqBody, route, shown, submissions,
         counter0, entries0>>

vars == <<envVERCEL, envMODEM_MODE, now, phase, turbo, wrapped, chunks, body, offset,
          timers, sink, ended, closed, writeRet, sent, nwrites, endAt, armed, redirected,
          ticksLate, writesLate, app>>

env == <<envVERCEL, envMODEM_MODE>>

\* !!process.env.VERCEL : an absent or empty variable is falsy.
\* (fault: the variable is only tested for presence)
IS_VERCEL_Defined == envVERCEL # Unset
IS_VERCEL == envVERCEL # Unset /\ envVERCEL # ""

MODEM_MODE == ~IS_VERCEL /\ envMODEM_MODE # "false"

\* No request has arrived.
InitServer ==
    /\ now = 0
    /\ phase = [r \in Reqs |-> "idle"]
    /\ turbo = [r \in Reqs |-> Unset]
    /\ wrapped = [r \in Reqs |-> FALSE]
    /\ chunks = [r \in Reqs |-> <<>>]
    /\ body = [r \in Reqs |-> <<>>]
    /\ offset = [r \in Reqs |-> 0]
    /\ timers = [r \in Reqs |-> <<>>]
    /\ sink = [r \in Reqs |-> <<>>]
    /\ ended = [r \in Reqs |-> <<>>]
    /\ closed = [r \in Reqs |-> FALSE]
    /\ writeRet = [r \in Reqs |-> "none"]
    /\ sent = [r \in Reqs |-> <<>>]
    /\ nwrites = [r \in Reqs |-> 0]
    /\ endAt = [r \in Reqs |-> <<>>]
    /\ armed = [r \in Reqs |-> 0]
    /\ redirected = [r \in Reqs |-> FALSE]
    /\ ticksLate = [r \in Reqs |-> 0]
    /\ writesLate = [r \in Reqs |-> 0]
    /\ status = [r \in Reqs |-> 200]
    /\ reqBody = [r \in Reqs |-> 0]
    /\ route = [r \in Reqs |-> "none"]
    /\ shown = [r \in Reqs |-> 0]
    /\ submissions = <<>>
    /\ counter0 = counterFile
    /\ entries0 = entriesFile

\* A first start: the data directory holds neither file.
InitFresh ==
    /\ counterFile = NoFile
    /\ entriesFile = NoFile

Init ==
    /\ envVERCEL \in VercelValues
    /\ envMODEM_MODE \in ModemModeValues
    /\ InitFresh
    /\ InitServer

\* ------------------------------------------------------------ the original sink
\* originalWrite.call(res, data) at time t
OriginalWrite(r, data, t) ==
    /\ sink' = [sink EXCEPT ![r] = Append(@, [data |-> data, at |-> t])]
    /\ writesLate' = [writesLate EXCEPT ![r] = IF closed[r] THEN @ + 1 ELSE @]

\* originalEnd.call(res) at time t
OriginalEnd(r, t) ==
    ended' = [ended EXCEPT ![r] = Append(@, t)]

\* setTimeout(drip, delay) called at time t, with `pending` the other timers of r
SetTimeout(r, pending, t, delay) ==
    /\ timers' = [timers EXCEPT ![r] = Append(pending, t + delay)]
    /\ armed' = [armed EXCEPT ![r] = @ + 1]

\* ------------------------------------------------------------ modemThrottle
\* The middleware leaves res alone when the modem mode is off or the query
\* says turbo=1, and wraps it otherwise.
\* (fault: the turbo flag is not looked at)
Bypass_NoTurbo(q) == ~MODEM_MODE
Bypass(q) == ~MODEM_MODE \/ q = "1"

\* chunks, body and offset are locals of one modemThrottle call (of its
\* res.end): every response has its own.
\* (fault: the locals are shared by all responses)
Closure_Shared(r) == 1
Closure(r) == r

\* The middleware runs for a new request.
ModemThrottle(r, q) ==
    /\ phase[r] = "idle"
    /\ phase' = [phase EXCEPT ![r] = "open"]
    /\ turbo' = [turbo EXCEPT ![r] = q]
    /\ wrapped' = [wrapped EXCEPT ![r] = ~Bypass(q)]
    /\ UNCHANGED <<env, now, chunks, body, offset, timers, sink, ended, closed, writeRet,
                   sent, nwrites, endAt, armed, redirected, ticksLate, writesLate, app>>

\* chunks after the wrapper's res.write(chunk, encoding)
\* (fault: the encoding argument is dropped)
WritePush_NoEncoding(list, chunk, encoding) ==
    IF Truthy(chunk) THEN Append(list, ToBuffer(chunk, Unset)) ELSE list
WritePush(list, chunk, encoding) ==
    IF Truthy(chunk) THEN Append(list, ToBuffer(chunk, encoding)) ELSE list

\* chunks after the push of the wrapper's res.end(chunk, encoding)
EndPush(list, chunk, encoding) ==
    IF Truthy(chunk) /\ Length(chunk) > 0
    THEN Append(list, ToBuffer(chunk, encoding)) ELSE list

\* what the wrapper's res.write returns
WrappedWriteResult == "true"

\* the wrapper's res.end has nothing to throttle
\* (fault: the test looks at the number of chunks)
NothingToThrottle_NoChunks(list, b) == Len(list) = 0
NothingToThrottle(list, b) == Len(b) = 0

\* res.write calls made so far, on all responses
RECURSIVE SumTo(_, _)
SumTo(f, n) == IF n = 0 THEN 0 ELSE f[n] + SumTo(f, n - 1)
Written == SumTo(nwrites, NReq)

\* The handler calls res.write(chunk, encoding).
ResWrite(r, chunk, encoding) ==
    /\ phase[r] = "open"
    /\ Written < MaxWrites
    /\ nwrites' = [nwrites EXCEPT ![r] = @ + 1]
    /\ sent' = [sent EXCEPT ![r] = @ \o ToBuffer(chunk, encoding)]
    /\ IF wrapped[r]
       THEN /\ chunks' = [chunks EXCEPT ![Closure(r)] = WritePush(@, chunk, encoding)]
            /\ writeRet' = [writeRet EXCEPT ![r] = WrappedWriteResult]
            /\ UNCHANGED <<sink, writesLate>>
       ELSE \* the original write: it rejects undefined, and the handler gets
            \* whatever the socket answers
            /\ chunk # Undefined
            /\ OriginalWrite(r, ToBuffer(chunk, encoding), now)
            /\ writeRet' = [writeRet EXCEPT ![r] = "original"]
            /\ UNCHANGED chunks
    /\ UNCHANGED <<env, now, phase, turbo, wrapped, body, offset, timers, ended, closed,
                   endAt, armed, redirected, ticksLate, app>>

\* the wrapper's res.end starts the drip at time t
\* (fault: the first tick waits one interval only)
Start_NoLatency(r, pending, t) == SetTimeout(r, pending, t, CHUNK_INTERVAL)
Start(r, pending, t) == SetTimeout(r, pending, t, MODEM_LATENCY)

\* res.end(chunk, encoding) on a response whose res.end is the wrapper (w)
\* or the original.
End(r, w, chunk, encoding) ==
    IF w
    THEN LET c == Closure(r)
             list == EndPush(chunks[c], chunk, encoding)
             b == BufferConcat(list)
         IN  /\ chunks' = [chunks EXCEPT ![c] = list]
             /\ body' = [body EXCEPT ![c] = b]
             /\ endAt' = [endAt EXCEPT ![r] = Append(@, now)]
             /\ IF NothingToThrottle(list, b)
                THEN /\ OriginalEnd(r, now)
                     /\ UNCHANGED <<offset, timers, armed>>
                ELSE /\ offset' = [offset EXCEPT ![c] = 0]
                     /\ Start(r, timers[r], now)
                     /\ UNCHANGED ended
             /\ UNCHANGED <<sink, writesLate>>
    ELSE \* the original end: it writes the chunk, if any, and finishes
         /\ IF Truthy(chunk) /\ Length(chunk) > 0
            THEN OriginalWrite(r, ToBuffer(chunk, encoding), now)
            ELSE UNCHANGED <<sink, writesLate>>
         /\ OriginalEnd(r, now)
         /\ UNCHANGED <<chunks, body, offset, timers, endAt, armed>>

\* A handler calls res.end(chunk, encoding): what the call does to the
\* response.
CallEnd(r, chunk, encoding) ==
    /\ phase[r] = "open"
    /\ phase' = [phase EXCEPT ![r] = "ended"]
    /\ sent' = [sent EXCEPT ![r] = @ \o ToBuffer(chunk, encoding)]
    /\ End(r, wrapped[r], chunk, encoding)
    /\ UNCHANGED <<env, now, turbo, wrapped, closed, writeRet, nwrites, redirected,
                   ticksLate>>

\* The handler calls res.end(chunk, encoding).
ResEnd(r, chunk, encoding) ==
    /\ CallEnd(r, chunk, encoding)
    /\ UNCHANGED app

\* res.write / res.end are the wrappers after the replaced res.redirect has
\* put the originals back.
\* (fault: the originals are not put back)
Restore_Forgotten(w) == w
Restore(w) == FALSE

\* The handler calls res.redirect(url): on a wrapped response the replaced
\* redirect restores the original write and end; then the original redirect
\* ends the response with its own body through res.end.
CallRedirect(r) ==
    /\ phase[r] = "open"
    /\ wrapped[r] \/ sink[r] = <<>>          \* the headers are not sent yet
    /\ phase' = [phase EXCEPT ![r] = "ended"]
    /\ redirected' = [redirected EXCEPT ![r] = TRUE]
    /\ sent' = [sent EXCEPT ![r] = @ \o ToBuffer(RedirectBody, Unset)]
    /\ LET w == IF wrapped[r] THEN Restore(wrapped[r]) ELSE FALSE
       IN  /\ wrapped' = [wrapped EXCEPT ![r] = w]
           /\ End(r, w, RedirectBody, Unset)
    /\ UNCHANGED <<env, now, turbo, closed, writeRet, nwrites, ticksLate>>

\* The handler calls res.redirect(url).
ResRedirect(r) ==
    /\ CallRedirect(r)
    /\ UNCHANGED app

\* where the piece of a tick ends
\* (faults: off by one; the cursor is left out of the sum)
DripEnd_TooFar(off, len) == Min(off + CHUNK_SIZE + 1, len)
DripEnd_FromStart(off, len) == Min(CHUNK_SIZE, len)
DripEnd(off, len) == Min(off + CHUNK_SIZE, len)

\* the buffer is drained
\* (fault: the test looks one chunk ahead)
Drained_Early(off, len) == off + CHUNK_SIZE >= len
Drained(off, len) == off >= len

\* the i-th pending timer of r is due no later than any other pending timer
Earliest(r, i) ==
    \A q \in Reqs : \A j \in 1 .. Len(timers[q]) : timers[r][i] <= timers[q][j]

\* the pending timers once the i-th has fired: a setTimeout timer fires once
\* (fault: the timer is an interval, it stays armed)
Remove_Interval(s, i) == s
Remove(s, i) == SubSeq(s, 1, i - 1) \o SubSeq(s, i + 1, Len(s))

\* drip re-arms itself at time t
\* (faults: no timer is set; the latency is used as the interval)
Rearm_Forgotten(r, pending, t) ==
    /\ timers' = [timers EXCEPT ![r] = pending]
    /\ UNCHANGED armed
Rearm_Latency(r, pending, t) == SetTimeout(r, pending, t, MODEM_LATENCY)
Rearm(r, pending, t) == SetTimeout(r, pending, t, CHUNK_INTERVAL)

\* A timer of r fires: drip()
Drip(r, i) ==
    /\ i \in 1 .. Len(timers[r])
    /\ Earliest(r, i)
    /\ LET t == timers[r][i]
           c == Closure(r)
           end == DripEnd(offset[c], Len(body[c]))
       IN  /\ now' = t
           /\ OriginalWrite(r, Slice(body[c], offset[c], end), t)
           /\ offset' = [offset EXCEPT ![c] = end]
           /\ IF Drained(end, Len(body[c]))
              THEN /\ OriginalEnd(r, t)
                   /\ timers' = [timers EXCEPT ![r] = Remove(@, i)]
                   /\ UNCHANGED armed
              ELSE /\ Rearm(r, Remove(timers[r], i), t)
                   /\ UNCHANGED ended
    /\ ticksLate' = [ticksLate EXCEPT ![r] = IF closed[r] THEN @ + 1 ELSE @]
    /\ UNCHANGED <<env, phase, turbo, wrapped, chunks, body, closed, writeRet, sent,
                   nwrites, endAt, redirected, app>>

\* The client closes the connection of a response that is not finished.
Close(r) ==
    /\ phase[r] # "idle"
    /\ ~closed[r]
    /\ ended[r] = <<>>
    /\ closed' = [closed EXCEPT ![r] = TRUE]
    /\ UNCHANGED <<env, now, phase, turbo, wrapped, chunks, body, offset, timers, sink,
                   ended, writeRet, sent, nwrites, endAt, armed, redirected, ticksLate,
                   writesLate, app>>

\* Time passes between two steps of a handler, while no timer is due.
Elapse ==
    /\ \E r \in Reqs : phase[r] = "open"
    /\ now + ElapseStep <= MaxClock
    /\ \A q \in Reqs : \A j \in 1 .. Len(timers[q]) : now + ElapseStep <= timers[q][j]
    /\ now' = now + ElapseStep
    /\ UNCHANGED <<env, phase, turbo, wrapped, chunks, body, offset, timers, sink, ended,
                   closed, writeRet, sent, nwrites, endAt, armed, redirected, ticksLate,
                   writesLate, app>>

\* The event loop runs a due timer of r.
Tick(r) == \E i \in 1 .. Len(timers[r]) : Drip(r, i)

\* One response: every input of its handler, the client and the clock.
Next ==
    \/ \E q \in TurboValues : ModemThrottle(1, q)
    \/ \E c \in ChunkValues(1), e \in Encodings : ResWrite(1, c, e)
    \/ \E c \in ChunkValues(1), e \in Encodings : ResEnd(1, c, e)
    \/ Tick(1)
    \/ ResRedirect(1)
    \/ Close(1)
    \/ Elapse

Spec == Init /\ [][Next]_vars

\* The event loop runs a timer that is due.
SpecFair == Spec /\ \A r \in Reqs : WF_vars(Tick(r))

\* Several responses in flight at once: every response gets its own content,
\* and the handlers' calls and the timers interleave freely.
NextConc ==
    \/ \E r \in Reqs : ModemThrottle(r, Unset)
    \/ \E r \in Reqs : ResWrite(r, Buf(Block(r)), Unset)
    \/ \E r \in Reqs : \E c \in {Undefined, Str(Text(r))} : ResEnd(r, c, Unset)
    \/ \E r \in Reqs : Tick(r)
    \/ Elapse

\* The modem mode is on.
InitConc == Init /\ MODEM_MODE

SpecConc == InitConc /\ [][NextConc]_vars

\* res.end(chunk) is called again on a response that is finished: its
\* handler called res.end or res.redirect before and, when that call went
\* through the wrapper, the drip has drained the body and called the original
\* end.  res.end is what it was left as: the wrapper (whose chunks array is
\* the one of the first call) or, after a redirect or a bypass, the original.
ResEndAgain(r, chunk) ==
    /\ phase[r] = "ended"
    /\ ended[r] # <<>>
    /\ timers[r] = <<>>
    /\ Len(endAt[r]) < MaxEnds
    /\ Len(ended[r]) < MaxEnds
    /\ sent' = [sent EXCEPT ![r] = @ \o ToBuffer(chunk, Unset)]
    /\ End(r, wrapped[r], chunk, Unset)
    /\ UNCHANGED <<env, now, phase, turbo, wrapped, closed, writeRet, nwrites, redirected,
                   ticksLate, app>>

\* One response whose handler, or the code that runs after it, may finalize
\* it more than once.
NextAgain ==
    \/ \E q \in TurboValues : ModemThrottle(1, q)
    \/ ResWrite(1, Buf(Block(1)), Unset)
    \/ \E c \in {Undefined, Str(Text(1))} : ResEnd(1, c, Unset)
    \/ ResRedirect(1)
    \/ Tick(1)
    \/ \E c \in {Undefined, Str(Text(1))} : ResEndAgain(1, c)

SpecAgain == Init /\ [][NextAgain]_vars

\* One response under every environment: the handler writes, ends or
\* redirects, with or without turbo.
NextEnv ==
    \/ \E q \in TurboValues : ModemThrottle(1, q)
    \/ ResWrite(1, Buf(Block(1)), Unset)
    \/ \E c \in {Undefined, Str(Text(1))} : ResEnd(1, c, Unset)
    \/ ResRedirect(1)
    \/ Tick(1)
    \/ Elapse

InitEnv ==
    /\ envVERCEL \in EnvVercelValues
    /\ envMODEM_MODE \in EnvModemModeValues
    /\ InitFresh
    /\ InitServer

SpecEnv == InitEnv /\ [][NextEnv]_vars

\* ------------------------------------------------------------ strings
\* The white space String.prototype.trim removes, among the code points of
\* the model (below 0x800).
IsSpace(c) == c \in {9, 10, 11, 12, 13, 32, 160}

RECURSIVE TrimStart(_)
TrimStart(s) == IF s # <<>> /\ IsSpace(s[1]) THEN TrimStart(Tail(s)) ELSE s

RECURSIVE TrimEnd(_)
TrimEnd(s) ==
    IF s # <<>> /\ IsSpace(s[Len(s)]) THEN TrimEnd(SubSeq(s, 1, Len(s) - 1)) ELSE s

\* s.trim()
Trim(s) == TrimEnd(TrimStart(s))

\* (v || '') of a form field: an absent field and '' give ''
OrEmpty(v) == IF v.kind = "string" THEN v.val ELSE <<>>

\* String(n) of a count
RECURSIVE ToDigits(_)
ToDigits(n) == IF n < 10 THEN <<48 + n>> ELSE Append(ToDigits(n \div 10), 48 + (n % 10))

\* s.padStart(len, c)
PadStart(s, len, c) ==
    IF Len(s) >= len THEN s ELSE [i \in 1 .. len - Len(s) |-> c] \o s

\* the number a run of digits stands for
RECURSIVE ParseInt(_)
ParseInt(ds) ==
    IF ds = <<>> THEN 0
    ELSE ParseInt(SubSeq(ds, 1, Len(ds) - 1)) * 10 + (ds[Len(ds)] - 48)

\* the first position at which pat occurs in s, 0 when there is none
IndexOf(s, pat) ==
    LET hits == {i \in 1 .. Len(s) - Len(pat) + 1 : SubSeq(s, i, i + Len(pat) - 1) = pat}
    IN  IF hits = {} THEN 0 ELSE CHOOSE i \in hits : \A j \in hits : i <= j

\* s.replace(pat, by) with a string pattern: the first occurrence only
Replace(s, pat, by) ==
    LET i == IndexOf(s, pat)
    IN  IF i = 0 THEN s
        ELSE SubSeq(s, 1, i - 1) \o by \o SubSeq(s, i + Len(pat), Len(s))

\* ------------------------------------------------------------ JSON text
\* JSON.stringify of one character of a string: the quote, the backslash and
\* the control characters that have a short escape (the strings of the model
\* hold no other control character).
EscapeChar(c) ==
    IF c = 34 THEN <<92, 34>>
    ELSE IF c = 92 THEN <<92, 92>>
    ELSE IF c = 8 THEN <<92, 98>>
    ELSE IF c = 9 THEN <<92, 116>>
    ELSE IF c = 10 THEN <<92, 110>>
    ELSE IF c = 12 THEN <<92, 102>>
    ELSE IF c = 13 THEN <<92, 114>>
    ELSE <<c>>

RECURSIVE Escape(_)
Escape(s) ==
    IF Len(s) = 0 THEN <<>>
    ELSE IF Len(s) = 1 THEN EscapeChar(s[1])
    ELSE LET h == Len(s) \div 2
         IN  Escape(SubSeq(s, 1, h)) \o Escape(SubSeq(s, h + 1, Len(s)))

\* JSON.stringify(s) of a string
JsonString(s) == <<34>> \o Escape(s) \o <<34>>

\* the character an escape \c stands for
UnescapeChar(c) ==
    IF c = 98 THEN 8
    ELSE IF c = 116 THEN 9
    ELSE IF c = 110 THEN 10
    ELSE IF c = 102 THEN 12
    ELSE IF c = 114 THEN 13
    ELSE c

\* the backslashes that end at position i of s
RECURSIVE Backslashes(_, _)
Backslashes(s, i) == IF i >= 1 /\ s[i] = 92 THEN 1 + Backslashes(s, i - 1) ELSE 0

\* the characters between the quotes of a JSON string (by halves, never
\* cutting an escape in two)
RECURSIVE Unescape(_)
Unescape(s) ==
    IF Len(s) <= 1 THEN s
    ELSE IF Len(s) = 2 /\ s[1] = 92 THEN <<UnescapeChar(s[2])>>
    ELSE LET h0 == Len(s) \div 2
             h == IF Backslashes(s, h0) % 2 = 1 THEN h0 + 1 ELSE h0
         IN  Unescape(SubSeq(s, 1, h)) \o Unescape(SubSeq(s, h + 1, Len(s)))

\* JSON.parse of the text of a string
JsonParseString(t) == Unescape(SubSeq(t, 2, Len(t) - 1))

\* ------------------------------------------------------------ the visitor counter
\* JSON.stringify({ count: count })
CounterJson(count) == <<123, 34, 99, 111, 117, 110, 116, 34, 58>> \o ToDigits(count) \o <<125>>

\* JSON.parse(data).count of the text of COUNTER_FILE: the number, or -1 when
\* the text is no object with a count of digits (JSON.parse throws, or there
\* is no such number).  White space between the tokens is skipped.
ParseCounter(data) ==
    LET t == SelectSeq(data, LAMBDA c : ~IsSpace(c))
        head == <<123, 34, 99, 111, 117, 110, 116, 34, 58>>
        ds == SubSeq(t, Len(head) + 1, Len(t) - 1)
    IN  IF /\ Len(t) >= Len(head) + 2
           /\ SubSeq(t, 1, Len(head)) = head
           /\ t[Len(t)] = 125
           /\ \A i \in 1 .. Len(ds) : ds[i] \in 48 .. 57
        THEN ParseInt(ds)
        ELSE -1

\* readCounter(): the count of the file, 0 when there is no file or no count
ReadCounter(file) ==
    IF file = NoFile THEN 0
    ELSE IF ParseCounter(file[1]) < 0 THEN 0
    ELSE ParseCounter(file[1])

\* COUNTER_FILE after incrementCounter()
\* (fault: the new count is not saved)
IncrementCounter_NotSaved(file) == file
IncrementCounter(file) == File(CounterJson(ReadCounter(file) + 1))

\* formatCounter(count)
FormatCounter(count) == PadStart(ToDigits(count), 7, 48)

\* '<!-- VISITOR_COUNT -->'
Placeholder ==
    <<60, 33, 45, 45, 32, 86, 73, 83, 73, 84, 79, 82, 95, 67, 79, 85, 78, 84, 32, 45, 45, 62>>

\* index.html: 300 characters, the placeholder, 60 characters.
IndexHtml ==
    [i \in 1 .. 300 |-> 97 + (i % 26)] \o Placeholder \o [i \in 1 .. 60 |-> 65 + (i % 26)]

\* GET / and /index.html
Homepage(r) ==
    /\ phase[r] = "open"
    /\ LET count == ReadCounter(counterFile) + 1
           html == Replace(IndexHtml, Placeholder, FormatCounter(count))
       IN  /\ counterFile' = IncrementCounter(counterFile)
           /\ shown' = [shown EXCEPT ![r] = count]
           /\ CallEnd(r, Str(html), Unset)
    /\ route' = [route EXCEPT ![r] = "home"]
    /\ UNCHANGED <<entriesFile, status, reqBody, submissions, counter0, entries0>>

\* ------------------------------------------------------------ the guestbook
\* the body of the 400 response for a missing name or message
MissingBody ==
    <<60, 104, 116, 109, 108, 62, 60, 98, 111, 100, 121, 32, 115, 116, 121, 108, 101, 61,
      34, 98, 97, 99, 107, 103, 114, 111, 117, 110, 100, 58, 35, 48, 48, 48, 59, 99, 111,
      108, 111, 114, 58, 35, 100, 100, 53, 53, 48, 48, 59, 102, 111, 110, 116, 45, 102, 97,
      109, 105, 108, 121, 58, 67, 111, 109, 105, 99, 32, 83, 97, 110, 115, 32, 77, 83, 44,
      86, 101, 114, 100, 97, 110, 97, 59, 116, 101, 120, 116, 45, 97, 108, 105, 103, 110,
      58, 99, 101, 110, 116, 101, 114, 59, 112, 97, 100, 100, 105, 110, 103, 58, 52, 48,
      112, 120, 59, 34, 62, 60, 104, 50, 62, 65, 114, 114, 114, 33, 32, 83, 111, 109, 101,
      116, 104, 105, 110, 103, 32, 119, 101, 110, 116, 32, 119, 114, 111, 110, 103, 33, 60,
      47, 104, 50, 62, 60, 112, 32, 115, 116, 121, 108, 101, 61, 34, 99, 111, 108, 111,
      114, 58, 35, 99, 99, 99, 59, 34, 62, 89, 111, 117, 32, 109, 117, 115, 116, 32, 112,
      114, 111, 118, 105, 100, 101, 32, 98, 111, 116, 104, 32, 97, 32, 110, 97, 109, 101,
      32, 97, 110, 100, 32, 97, 32, 109, 101, 115, 115, 97, 103, 101, 44, 32, 121, 101, 32,
      115, 99, 117, 114, 118, 121, 32, 100, 111, 103, 33, 60, 47, 112, 62, 60, 112, 62, 60,
      97, 32, 104, 114, 101, 102, 61, 34, 47, 103, 117, 101, 115, 116, 98, 111, 111, 107,
      46, 104, 116, 109, 108, 34, 32, 115, 116, 121, 108, 101, 61, 34, 99, 111, 108, 111,
      114, 58, 35, 54, 54, 55, 55, 99, 99, 59, 34, 62, 66, 97, 99, 107, 32, 116, 111, 32,
      116, 104, 101, 32, 71, 117, 101, 115, 116, 98, 111, 111, 107, 60, 47, 97, 62, 60, 47,
      112, 62, 60, 47, 98, 111, 100, 121, 62, 60, 47, 104, 116, 109, 108, 62>>

\* the body of the 400 response for a name or message that is too long
TooLongBody ==
    <<60, 104, 116, 109, 108, 62, 60, 98, 111, 100, 121, 32, 115, 116, 121, 108, 101, 61,
      34, 98, 97, 99, 107, 103, 114, 111, 117, 110, 100, 58, 35, 48, 48, 48, 59, 99, 111,
      108, 111, 114, 58, 35, 100, 100, 53, 53, 48, 48, 59, 102, 111, 110, 116, 45, 102, 97,
      109, 105, 108, 121, 58, 67, 111, 109, 105, 99, 32, 83, 97, 110, 115, 32, 77, 83, 44,
      86, 101, 114, 100, 97, 110, 97, 59, 116, 101, 120, 116, 45, 97, 108, 105, 103, 110,
      58, 99, 101, 110, 116, 101, 114, 59, 112, 97, 100, 100, 105, 110, 103, 58, 52, 48,
      112, 120, 59, 34, 62, 60, 104, 50, 62, 65, 114, 114, 114, 33, 32, 84, 111, 111, 32,
      109, 97, 110, 121, 32, 119, 111, 114, 100, 115, 33, 60, 47, 104, 50, 62, 60, 112, 32,
      115, 116, 121, 108, 101, 61, 34, 99, 111, 108, 111, 114, 58, 35, 99, 99, 99, 59, 34,
      62, 75, 101, 101, 112, 32, 121, 111, 117, 114, 32, 110, 97, 109, 101, 32, 117, 110,
      100, 101, 114, 32, 53, 48, 32, 99, 104, 97, 114, 97, 99, 116, 101, 114, 115, 32, 97,
      110, 100, 32, 121, 111, 117, 114, 32, 109, 101, 115, 115, 97, 103, 101, 32, 117, 110,
      100, 101, 114, 32, 49, 48, 48, 48, 44, 32, 109, 97, 116, 101, 121, 33, 60, 47, 112,
      62, 60, 112, 62, 60, 97, 32, 104, 114, 101, 102, 61, 34, 47, 103, 117, 101, 115, 116,
      98, 111, 111, 107, 46, 104, 116, 109, 108, 34, 32, 115, 116, 121, 108, 101, 61, 34,
      99, 111, 108, 111, 114, 58, 35, 54, 54, 55, 55, 99, 99, 59, 34, 62, 66, 97, 99, 107,
      32, 116, 111, 32, 116, 104, 101, 32, 71, 117, 101, 115, 116, 98, 111, 111, 107, 60,
      47, 97, 62, 60, 47, 112, 62, 60, 47, 98, 111, 100, 121, 62, 60, 47, 104, 116, 109,
      108, 62>>

\* !name || !message
\* (fault: both must be missing)
Missing_Both(name, message) == name = <<>> /\ message = <<>>
Missing(name, message) == name = <<>> \/ message = <<>>

\* name.length > 50 || message.length > 1000
TooLong(name, message) == Len(name) > 50 \/ Len(message) > 1000

\* the strings of the guestbook handler
Http == <<104, 116, 116, 112, 58, 47, 47>>
Https == <<104, 116, 116, 112, 115, 58, 47, 47>>
Somi == <<115, 111, 109, 105>>
Mi2 == <<109, 105, 50>>
Comi == <<99, 111, 109, 105>>
SomiLabel == <<84, 104, 101, 32, 83, 101, 99, 114, 101, 116, 32, 111, 102, 32, 77, 111, 110, 107, 101,
  121, 32, 73, 115, 108, 97, 110, 100>>
Mi2Label == <<77, 111, 110, 107, 101, 121, 32, 73, 115, 108, 97, 110, 100, 32, 50, 58, 32, 76, 101, 67,
  104, 117, 99, 107, 39, 115, 32, 82, 101, 118, 101, 110, 103, 101>>
ComiLabel == <<84, 104, 101, 32, 67, 117, 114, 115, 101, 32, 111, 102, 32, 77, 111, 110, 107, 101, 121,
  32, 73, 115, 108, 97, 110, 100>>

\* 'http://' and 'https://' alone are no URL
CleanUrl(url) ==
    IF url # <<>> /\ url # Http /\ url # Https THEN url ELSE <<>>

\* favoriteLabel(value)
FavoriteLabel(value) ==
    IF value = Somi THEN SomiLabel
    ELSE IF value = Mi2 THEN Mi2Label
    ELSE IF value = Comi THEN ComiLabel
    ELSE value

\* formatDate(new Date()) at time t: the clock of the model starts at
\* midnight, local time, of 1 January 1999.
FormatDate(t) ==
    LET hours == (t \div 3600000) % 24
        minutes == (t \div 60000) % 60
        h12 == IF hours % 12 = 0 THEN 12 ELSE hours % 12
    IN  <<48, 49, 47, 48, 49, 47, 49, 57, 57, 57, 32, 45, 32>> \o ToDigits(h12) \o <<58>> \o PadStart(ToDigits(minutes), 2, 48)
            \o <<32>> \o (IF hours >= 12 THEN <<80, 77>> ELSE <<65, 77>>)

\* the entry of a form, made at time t
Entry(form, t) ==
    [name |-> Trim(OrEmpty(form.name)),
     url |-> CleanUrl(Trim(OrEmpty(form.url))),
     message |-> Trim(OrEmpty(form.message)),
     favorite |-> FavoriteLabel(OrEmpty(form.favorite)),
     date |-> FormatDate(t)]

\* JSON.stringify / JSON.parse of the entries: the array and its objects are
\* kept as they are, every string is kept as its JSON text.
JsonEntry(e) == [f \in DOMAIN e |-> JsonString(e[f])]
ParseEntry(j) == [f \in DOMAIN j |-> JsonParseString(j[f])]

\* readEntries(): the entries of the file, none when there is no file
ReadEntries(file) ==
    IF file = NoFile THEN <<>>
    ELSE [k \in 1 .. Len(file[1]) |-> ParseEntry(file[1][k])]

\* ENTRIES_FILE after writeEntries(entries)
\* (fault: only the last entry is written)
WriteEntries_LastOnly(entries) == File(<<JsonEntry(entries[Len(entries)])>>)
WriteEntries(entries) == File([k \in 1 .. Len(entries) |-> JsonEntry(entries[k])])

\* The forms of the model: no name; a message of white space; a name of 51
\* characters; a message of 1001 characters; a name of 50 and a message of
\* 1000 characters inside white space, with 'http://' as URL and a favorite
\* of the list; a name and a message with a tab, quotes, a backslash, a line
\* break and an e acute, with a URL and no favorite.
ScummBar == <<104, 116, 116, 112, 58, 47, 47, 115, 99, 117, 109, 109, 98, 97, 114, 46, 99, 111, 109>>
ShortName == Str(<<32, 32, 71, 117, 121, 98, 114, 117, 115, 104, 9>>)
ShortMessage == Str(<<83, 97, 121, 32, 34, 65, 114, 114, 92, 34, 33, 10, 233>>)
LongText(n) == [i \in 1 .. n |-> 97 + (i % 26)]

Forms ==
    <<[name |-> Undefined, message |-> ShortMessage, url |-> Undefined,
      favorite |-> Undefined],
     [name |-> ShortName, message |-> Str(<<32, 10, 32>>), url |-> Undefined,
      favorite |-> Undefined],
     [name |-> Str(LongText(51)), message |-> ShortMessage, url |-> Undefined,
      favorite |-> Undefined],
     [name |-> ShortName, message |-> Str(LongText(1001)), url |-> Undefined,
      favorite |-> Undefined],
     [name |-> Str(<<32>> \o LongText(50) \o <<32>>),
      message |-> Str(<<10>> \o LongText(1000) \o <<10>>),
      url |-> Str(Http), favorite |-> Str(Somi)],
     [name |-> ShortName, message |-> ShortMessage,
      url |-> Str(<<32>> \o ScummBar \o <<32>>), favorite |-> Undefined]>>

\* POST /sign-guestbook with the i-th form as req.body
SignGuestbook(r, i) ==
    /\ phase[r] = "open"
    /\ route' = [route EXCEPT ![r] = "sign"]
    /\ reqBody' = [reqBody EXCEPT ![r] = i]
    /\ submissions' = Append(submissions, [r |-> r, at |-> now])
    /\ LET form == Forms[i]
           name == Trim(OrEmpty(form.name))
           message == Trim(OrEmpty(form.message))
       IN  IF Missing(name, message)
           THEN /\ status' = [status EXCEPT ![r] = 400]
                /\ CallEnd(r, Str(MissingBody), Unset)
                /\ UNCHANGED entriesFile
           ELSE IF TooLong(name, message)
           THEN /\ status' = [status EXCEPT ![r] = 400]
                /\ CallEnd(r, Str(TooLongBody), Unset)
                /\ UNCHANGED entriesFile
           ELSE /\ entriesFile' =
                     WriteEntries(Append(ReadEntries(entriesFile), Entry(form, now)))
                /\ status' = [status EXCEPT ![r] = 302]
                /\ CallRedirect(r)
    /\ UNCHANGED <<counterFile, shown, counter0, entries0>>

\* What the data directory holds when the server starts: nothing; a counter
\* written by the server and an empty array; or the seed files, a counter
\* file written by hand and one entry.
SeedEntry == Entry([name |-> Str(<<77, 117, 114, 114, 97, 121>>), message |-> Str(<<66, 111, 111, 33>>),
                    url |-> Undefined, favorite |-> Str(Mi2)], 0)

DataDirs ==
    {[counter |-> NoFile, entries |-> NoFile],
     [counter |-> File(CounterJson(9)), entries |-> File(<<>>)],
     [counter |-> File(<<123, 32, 34, 99, 111, 117, 110, 116, 34, 58, 32, 57, 57, 57, 57, 57, 57, 57, 32, 125, 10>>), entries |-> File(<<JsonEntry(SeedEntry)>>)]}

\* The home page among other routes, behind the throttle, with and without
\* turbo=1: the home page, another page, a form that is refused and a form
\* that is accepted.
NextCounter ==
    \/ \E r \in Reqs : \E q \in {Unset, "1"} : ModemThrottle(r, q)
    \/ \E r \in Reqs : Homepage(r)
    \/ \E r \in Reqs : \E i \in {2, 6} : SignGuestbook(r, i)
    \/ \E r \in Reqs : ResEnd(r, Str(Text(r)), Unset)
    \/ \E r \in Reqs : Tick(r)

\* A form submission arrives: the server takes the submissions up one at a
\* time, the r-th on response r (the middleware of a request touches nothing
\* but its own response, so it is run when its handler is about to run).
Arrive(r, q) ==
    /\ \A p \in Reqs : phase[p] # "open"
    /\ \A p \in Reqs : p < r => phase[p] # "idle"
    /\ ModemThrottle(r, q)

\* The guestbook form, behind the throttle, with and without turbo=1.
NextGuestbook ==
    \/ \E r \in Reqs : \E q \in {Unset, "1"} : Arrive(r, q)
    \/ \E r \in Reqs : \E i \in 1 .. Len(Forms) : SignGuestbook(r, i)
    \/ \E r \in Reqs : Tick(r)

\* The modem mode is on and the data directory is one of DataDirs.
InitApp ==
    /\ envVERCEL = Unset
    /\ envMODEM_MODE = Unset
    /\ \E d \in DataDirs : counterFile = d.counter /\ entriesFile = d.entries
    /\ InitServer

SpecCounter == InitApp /\ [][NextCounter]_vars

SpecGuestbook == InitApp /\ [][NextGuestbook]_vars

\* ------------------------------------------------------------ helpers of the properties
\* the bytes the original write received, in call order
Delivered(r) == BufferConcat([k \in 1 .. Len(sink[r]) |-> sink[r][k].data])

CeilDiv(a, b) == (a + b - 1) \div b

\* the handler finalized r through the wrapper's res.end
Throttled(r) == wrapped[r] /\ endAt[r] # <<>>

\* ------------------------------------------------------------ properties

\* C1: the body of a response finalized through the wrapper reaches the
\* original write in pieces: at every moment the delivered bytes are the
\* first bytes of what the handler wrote, in order, every piece but the last
\* delivered one is exactly CHUNK_SIZE long, no piece is empty or longer, and
\* once the original end is called there are ceil(L / CHUNK_SIZE) pieces
\* that together are the whole body.
C1_PiecesReproduceBody ==
    \A r \in Reqs :
        (Throttled(r) /\ Len(sent[r]) > 0) =>
            LET d == Delivered(r)
                n == Len(sink[r])
            IN  /\ Len(d) <= Len(sent[r])
                /\ d = SubSeq(sent[r], 1, Len(d))
                /\ \A k \in 1 .. n :
                       /\ Len(sink[r][k].data) >= 1
                       /\ Len(sink[r][k].data) <= CHUNK_SIZE
                       /\ k < n => Len(sink[r][k].data) = CHUNK_SIZE
                /\ ended[r] # <<>> =>
                       /\ n = CeilDiv(Len(sent[r]), CHUNK_SIZE)
                       /\ d = sent[r]

\* C1 witness: two writes and a final chunk, 899 bytes, delivered in three
\* pieces of which the last is short.
C1_Witness ==
    \E r \in Reqs :
        /\ Throttled(r) /\ ended[r] # <<>>
        /\ nwrites[r] = 2 /\ Len(chunks[r]) = 3
        /\ Len(sink[r]) = 3
        /\ Len(sink[r][3].data) = 199

\* C2: while the handler has not finalized a wrapped response, the original
\* write and end have received nothing, the buffer holds the bytes of every
\* chunk written so far in write order, and every write returned true.
C2_WriteOnlyBuffers ==
    \A r \in Reqs :
        (wrapped[r] /\ phase[r] = "open") =>
            /\ sink[r] = <<>>
            /\ ended[r] = <<>>
            /\ timers[r] = <<>>
            /\ BufferConcat(chunks[r]) = sent[r]
            /\ nwrites[r] > 0 => writeRet[r] = "true"

\* C2 witness: an empty Buffer and a latin1 string were written.
C2_Witness ==
    \E r \in Reqs :
        /\ wrapped[r] /\ phase[r] = "open"
        /\ nwrites[r] = 2
        /\ Len(chunks[r]) = 2 /\ chunks[r][1] = <<>> /\ Len(chunks[r][2]) = 199

\* C3: when the wrapper's end finds a body of length zero, the original end
\* is called in that call (at that time, once), the original write is never
\* called and no timer is ever set.
C3_EmptyBodyEndsAtOnce ==
    \A r \in Reqs :
        (Throttled(r) /\ Len(sent[r]) = 0) =>
            /\ ended[r] = endAt[r]
            /\ Len(ended[r]) = 1
            /\ sink[r] = <<>>
            /\ timers[r] = <<>>
            /\ armed[r] = 0

\* C3 witness: the handler wrote an empty Buffer and an empty string, then
\* ended without a chunk.
C3_Witness ==
    \E r \in Reqs :
        /\ Throttled(r) /\ Len(sent[r]) = 0
        /\ nwrites[r] = 2 /\ Len(chunks[r]) = 1
        /\ ended[r] # <<>>

\* C4: a request with turbo=1 is never wrapped: nothing is buffered, no timer
\* is set, every byte the handler writes is at the original write by the end
\* of the very call, and so is the end.
C4_TurboPassesThrough ==
    \A r \in Reqs :
        (turbo[r] = "1" /\ phase[r] # "idle") =>
            /\ ~wrapped[r]
            /\ chunks[r] = <<>> /\ body[r] = <<>> /\ offset[r] = 0
            /\ timers[r] = <<>> /\ armed[r] = 0 /\ endAt[r] = <<>>
            /\ Delivered(r) = sent[r]
            /\ Len(ended[r]) = (IF phase[r] = "ended" THEN 1 ELSE 0)

\* C4 witness: modem mode on, turbo=1, two writes and a final chunk.
C4_Witness ==
    \E r \in Reqs :
        /\ MODEM_MODE /\ turbo[r] = "1"
        /\ phase[r] = "ended" /\ ~redirected[r]
        /\ Len(sink[r]) = 3 /\ Len(sent[r]) = 900

\* C5: after res.redirect the original write and end are back, the redirect's
\* body and the end have reached the original sink at the time of the call,
\* nothing that was buffered before is delivered, and no timer is ever set.
C5_RedirectBypasses ==
    \A r \in Reqs :
        redirected[r] =>
            /\ ~wrapped[r]
            /\ Len(sink[r]) = 1
            /\ sink[r][1].data = ToBuffer(RedirectBody, Unset)
            /\ ended[r] = <<sink[r][1].at>>
            /\ timers[r] = <<>> /\ armed[r] = 0 /\ endAt[r] = <<>>

\* C5 witness: a redirect after two buffered writes on a wrapped response.
C5_Witness ==
    \E r \in Reqs :
        /\ redirected[r]
        /\ nwrites[r] = 2 /\ Len(chunks[r]) = 2 /\ Len(chunks[r][1]) = 350

\* C6: with the shipped configuration (56000 bit/s, so 350 bytes per piece,
\* a tick every 50 ms, 120 ms of latency) a wrapped response finalized at
\* time t0 with a body of 900 bytes delivers pieces of 350, 350 and 200
\* bytes at t0 + 120, t0 + 170 and t0 + 220 ms, and the original end is
\* called at t0 + 220 ms, in the tick of the last piece.
C6_Scenario900 ==
    /\ CHUNK_SIZE = 350 /\ CHUNK_INTERVAL = 50 /\ MODEM_LATENCY = 120
    /\ \A r \in Reqs :
        (Throttled(r) /\ Len(sent[r]) = 900) =>
            LET t0 == endAt[r][1]
                sizes == <<350, 350, 200>>
                times == <<120, 170, 220>>
                n == Len(sink[r])
            IN  /\ n <= 3
                /\ \A k \in 1 .. n :
                       /\ Len(sink[r][k].data) = sizes[k]
                       /\ sink[r][k].at = t0 + times[k]
                /\ ended[r] = (IF n = 3 THEN <<t0 + 220>> ELSE <<>>)

\* C6 witness: the 900 byte body, finalized at time 0, is delivered.
C6_Witness ==
    \E r \in Reqs :
        /\ Throttled(r) /\ Len(sent[r]) = 900
        /\ endAt[r] = <<0>>
        /\ Len(sink[r]) = 3 /\ ended[r] = <<220>>

\* C7 (as stated): the original end is called
\* MODEM_LATENCY + ceil(L / CHUNK_SIZE) * CHUNK_INTERVAL after the wrapper's end.
C7_ElapsedAsStated ==
    \A r \in Reqs :
        (Throttled(r) /\ Len(sent[r]) > 0 /\ ended[r] # <<>>) =>
            ended[r][1] - endAt[r][1] =
                MODEM_LATENCY + CeilDiv(Len(sent[r]), CHUNK_SIZE) * CHUNK_INTERVAL

\* C7 (amended): the first piece goes out when the latency is over and the
\* last one ceil(L / CHUNK_SIZE) - 1 ticks later, and the original end is
\* called with the last piece: the time from the wrapper's end to the
\* original end is MODEM_LATENCY + (ceil(L / CHUNK_SIZE) - 1) * CHUNK_INTERVAL.
C7_Elapsed ==
    \A r \in Reqs :
        (Throttled(r) /\ Len(sent[r]) > 0 /\ ended[r] # <<>>) =>
            /\ Len(ended[r]) = 1
            /\ ended[r][1] - endAt[r][1] =
                 MODEM_LATENCY + (CeilDiv(Len(sent[r]), CHUNK_SIZE) - 1) * CHUNK_INTERVAL

\* C7 witness: a body of three pieces, finalized after the clock has moved.
C7_Witness ==
    \E r \in Reqs :
        /\ Throttled(r) /\ ended[r] # <<>>
        /\ endAt[r][1] > 0
        /\ CeilDiv(Len(sent[r]), CHUNK_SIZE) = 3

\* C8: when due timers are run, a wrapped response finalized with a
\* non-empty body gets to the point where the cursor is at the end of the
\* body, the original end has been called (once) and no timer is pending,
\* and it stays there.
C8_DripTerminates ==
    \A r \in Reqs :
        (Throttled(r) /\ Len(sent[r]) > 0) ~>
            [](offset[r] = Len(body[r]) /\ Len(ended[r]) = 1 /\ timers[r] = <<>>)

\* C8 witness: a chain of three timers has drained a body.
C8_Witness ==
    \E r \in Reqs :
        /\ Throttled(r) /\ Len(sent[r]) > 0
        /\ armed[r] = 3
        /\ offset[r] = Len(body[r]) /\ Len(ended[r]) = 1 /\ timers[r] = <<>>

\* what belongs to one response
Own(r) == <<phase[r], chunks[r], body[r], offset[r], timers[r], sink[r], ended[r],
            sent[r], nwrites[r]>>

\* C9: with several wrapped responses in flight, every response delivers the
\* first bytes of its own body, in order, and all of it by the time its
\* original end is called; and a step (a write, an end or a tick of one
\* response) changes the buffer, cursor, timers and sink of no other response.
C9_Isolation ==
    /\ [](\A r \in Reqs :
            Throttled(r) =>
                LET d == Delivered(r)
                IN  /\ body[r] = sent[r]
                    /\ offset[r] = Len(d)
                    /\ Len(d) <= Len(sent[r])
                    /\ d = SubSeq(sent[r], 1, Len(d))
                    /\ ended[r] # <<>> => d = sent[r])
    /\ [][\A r, q \in Reqs :
            r # q => ~(Own(r)' # Own(r) /\ Own(q)' # Own(q))]_vars

\* C9 witness: two responses with different bodies, both partly delivered,
\* both with a timer pending, finalized at different times.
C9_Witness ==
    \E r, q \in Reqs :
        /\ r # q /\ Throttled(r) /\ Throttled(q)
        /\ sink[r] # <<>> /\ sink[q] # <<>>
        /\ timers[r] # <<>> /\ timers[q] # <<>>
        /\ endAt[r] # endAt[q]

\* C10 (as stated): once the connection of a response has closed after a
\* first piece went out, at most one more tick runs, no original write is
\* made and no timer is pending after that tick.
C10_StopsAfterClose ==
    \A r \in Reqs :
        (Throttled(r) /\ closed[r] /\ Len(sink[r]) - writesLate[r] >= 1) =>
            /\ writesLate[r] = 0
            /\ ticksLate[r] <= 1
            /\ ticksLate[r] = 1 => timers[r] = <<>>

C12_ChainEndsOnFailure ==
    \A r \in Reqs :
        (Throttled(r) /\ ticksLate[r] >= 1) =>
            /\ timers[r] = <<>>
            /\ ticksLate[r] = 1
            /\ writesLate[r] = 1

\* C15: the cursor of a response is between 0 and the length of its body;
\* on a response finalized through the wrapper it is the number of bytes
\* delivered, and it is at the end of the body when the original end has been
\* called.  Only a tick changes it: a step that changes the cursor delivers
\* one piece, a tick runs only while bytes remain, and it moves the cursor
\* forward by exactly min(CHUNK_SIZE, remaining bytes); so the cursor never
\* goes back, and the tick that brings it to the end of the body is the last
\* step that changes it.
C15_Cursor ==
    /\ [](\A r \in Reqs :
            /\ 0 <= offset[r] /\ offset[r] <= Len(body[r])
            /\ Throttled(r) =>
                   /\ offset[r] = Len(Delivered(r))
                   /\ ended[r] # <<>> => offset[r] = Len(body[r]))
    /\ [][\A r \in Reqs :
            LET remaining == Len(body[r]) - offset[r]
                ticked == Throttled(r) /\ Len(sink'[r]) = Len(sink[r]) + 1
            IN  /\ offset'[r] # offset[r] => ticked
                /\ ticked =>
                       /\ remaining >= 1
                       /\ offset'[r] = offset[r] + Min(CHUNK_SIZE, remaining)
                /\ offset'[r] >= offset[r]
                /\ (offset[r] = Len(body[r]) /\ Throttled(r)) => offset'[r] = offset[r]]_vars

\* C15 witness: a body of 899 bytes after its third tick: the cursor went
\* 350, 700, 899.
C15_Witness ==
    \E r \in Reqs :
        /\ Throttled(r) /\ Len(body[r]) = 899
        /\ offset[r] = 899 /\ Len(sink[r]) = 3

\* C16: on a response finalized through the wrapper with a non-empty body,
\* the original end is called at most once and, when it has been called, in
\* the tick of the last piece: it has been called exactly when the whole
\* body is delivered, at the time of the last original write, and nothing is
\* written after it (the pieces are ceil(L / CHUNK_SIZE) and their bytes are
\* the body, so the end passed no data).  The ticks run in the order of
\* their timers, the k-th at MODEM_LATENCY + (k - 1) * CHUNK_INTERVAL after
\* the wrapper's end, and the k-th piece starts where piece k - 1 ended.
C16_EndWithLastPiece ==
    \A r \in Reqs :
        (Throttled(r) /\ Len(sent[r]) > 0) =>
            LET L == Len(sent[r])
                n == Len(sink[r])
            IN  /\ Len(ended[r]) <= 1
                /\ n <= CeilDiv(L, CHUNK_SIZE)
                /\ ended[r] # <<>> <=> Len(Delivered(r)) = L
                /\ ended[r] # <<>> <=> offset[r] = Len(body[r])
                /\ ended[r] # <<>> =>
                       /\ n = CeilDiv(L, CHUNK_SIZE)
                       /\ ended[r][1] = sink[r][n].at
                /\ \A k \in 1 .. n :
                       /\ sink[r][k].at =
                            endAt[r][1] + MODEM_LATENCY + (k - 1) * CHUNK_INTERVAL
                       /\ sink[r][k].data =
                            SubSeq(sent[r], (k - 1) * CHUNK_SIZE + 1, Min(k * CHUNK_SIZE, L))

\* C16 witness: a body of 700 bytes, ended with its second piece at 170 ms
\* after the wrapper's end.
C16_Witness ==
    \E r \in Reqs :
        /\ Throttled(r) /\ Len(sent[r]) = 700
        /\ Len(sink[r]) = 2 /\ Len(ended[r]) = 1
        /\ ended[r][1] = endAt[r][1] + 170

\* C20: a response on which the wrapper's end was called once has at most
\* one timer pending.  Every timer set so far has either fired (and
\* delivered one piece) or is the pending one, so a timer is set only by the
\* end call or by a tick that has just fired; the pending timer is due one
\* latency after the end call plus one interval per tick that has run, and
\* bytes remain for it.  No timer is pending before the wrapper's end is
\* called, after the original end is called, or on a response that is not
\* wrapped.
C20_OneTimer ==
    \A r \in Reqs :
        /\ Len(timers[r]) <= 1
        /\ Len(endAt[r]) <= 1
        /\ (endAt[r] = <<>> \/ ended[r] # <<>>) => timers[r] = <<>>
        /\ endAt[r] = <<>> => armed[r] = 0
        /\ Throttled(r) =>
               /\ armed[r] = Len(timers[r]) + (IF Len(sent[r]) > 0 THEN Len(sink[r]) ELSE 0)
               /\ timers[r] # <<>> =>
                      /\ offset[r] < Len(body[r])
                      /\ timers[r][1] =
                           endAt[r][1] + MODEM_LATENCY + Len(sink[r]) * CHUNK_INTERVAL

\* C20 witness: the second tick has fired and set the third timer.
C20_Witness ==
    \E r \in Reqs :
        /\ Throttled(r) /\ Len(sink[r]) = 2
        /\ Len(timers[r]) = 1 /\ armed[r] = 3

\* C17 (as stated): a finalize that comes after a response has been flushed,
\* or after its redirect, finds the buffer reset and delivers no byte a second
\* time: the original write never receives more bytes than the handler
\* passed, on a response finalized through the wrapper what it receives is
\* the first bytes of what the handler passed, and the body a call of the
\* wrapper's end concatenates holds none of the bytes flushed before it
\* (the bytes flushed before the call and the body of the call are together
\* no more than what the handler passed).
C17_NoSecondDelivery ==
    \A r \in Reqs :
        LET d == Delivered(r)
        IN  /\ Len(d) <= Len(sent[r])
            /\ Throttled(r) => d = SubSeq(sent[r], 1, Len(d))
            /\ Throttled(r) => Len(d) - offset[r] + Len(body[r]) <= Len(sent[r])

\* a response that the middleware left alone: nothing is buffered, no timer
\* is ever set, and every byte the handler passes is at the original write
\* (and the original end called) when the handler's call returns
Passthrough(r) ==
    /\ ~wrapped[r]
    /\ chunks[r] = <<>> /\ body[r] = <<>>
    /\ timers[r] = <<>> /\ armed[r] = 0 /\ endAt[r] = <<>>
    /\ Delivered(r) = sent[r]
    /\ phase[r] = "ended" <=> ended[r] # <<>>

\* C14 (as stated): the throttle is on exactly when VERCEL is unset and
\* MODEM_MODE is not 'false': a request is wrapped exactly when the throttle
\* is on and its query has no turbo=1, and when the throttle is off every
\* response passes through, whatever the query.
C14_ActiveAsStated ==
    LET active == envVERCEL = Unset /\ envMODEM_MODE # "false"
    IN  \A r \in Reqs :
            phase[r] # "idle" =>
                /\ ~redirected[r] => (wrapped[r] <=> (active /\ turbo[r] # "1"))
                /\ ~active => Passthrough(r)

\* C14 (amended): the throttle is on exactly when VERCEL is unset or empty
\* and MODEM_MODE is not 'false': a request is wrapped exactly when the
\* throttle is on and its query has no turbo=1, and when the throttle is off
\* every response passes through, whatever the query and the other variable.
C14_Active ==
    LET active == envVERCEL \in {Unset, ""} /\ envMODEM_MODE # "false"
    IN  \A r \in Reqs :
            phase[r] # "idle" =>
                /\ ~redirected[r] => (wrapped[r] <=> (active /\ turbo[r] # "1"))
                /\ ~active => Passthrough(r)

\* C14 witness: on Vercel with MODEM_MODE = 'FALSE' and turbo=0, a response
\* of two chunks has passed straight through.
C14_Witness ==
    \E r \in Reqs :
        /\ envVERCEL = "1" /\ envMODEM_MODE = "FALSE" /\ turbo[r] = "0"
        /\ phase[r] = "ended" /\ Len(sink[r]) = 2 /\ ended[r] # <<>>

\* the time at which the form of r was handled
SubmittedAt(r) == submissions[CHOOSE k \in 1 .. Len(submissions) : submissions[k].r = r].at

\* the form of r has no name or no message once both are trimmed
NothingToSign(r) ==
    /\ route[r] = "sign"
    /\ \/ Trim(OrEmpty(Forms[reqBody[r]].name)) = <<>>
       \/ Trim(OrEmpty(Forms[reqBody[r]].message)) = <<>>

\* C13: a form whose name or message is empty once trimmed is answered with
\* status 400 and the body of the missing-field page, without a redirect;
\* and that body goes the way of any body of its length L.  With turbo=1 it
\* is at the original write, whole, and the original end is called, at the
\* time of the handler's call.  Otherwise it is buffered, and the k-th piece
\* goes out MODEM_LATENCY + (k - 1) * CHUNK_INTERVAL after the call and holds
\* the bytes from (k - 1) * CHUNK_SIZE up to CHUNK_SIZE more; the original
\* end is called with the last piece, and until then a timer is pending.
C13_ErrorBodyThrottled ==
    \A r \in Reqs :
        NothingToSign(r) =>
            LET t == SubmittedAt(r)
                L == Len(sent[r])
                n == Len(sink[r])
            IN  /\ status[r] = 400
                /\ ~redirected[r]
                /\ sent[r] = Utf8Encode(MissingBody)
                /\ IF turbo[r] = "1"
                   THEN /\ ~wrapped[r] /\ chunks[r] = <<>> /\ armed[r] = 0
                        /\ sink[r] = <<[data |-> sent[r], at |-> t]>>
                        /\ ended[r] = <<t>>
                   ELSE /\ wrapped[r] /\ endAt[r] = <<t>> /\ body[r] = sent[r]
                        /\ n <= CeilDiv(L, CHUNK_SIZE)
                        /\ \A k \in 1 .. n :
                               /\ sink[r][k].at =
                                    t + MODEM_LATENCY + (k - 1) * CHUNK_INTERVAL
                               /\ sink[r][k].data =
                                    SubSeq(sent[r], (k - 1) * CHUNK_SIZE + 1,
                                           Min(k * CHUNK_SIZE, L))
                        /\ IF n = CeilDiv(L, CHUNK_SIZE)
                           THEN ended[r] = <<sink[r][n].at>> /\ timers[r] = <<>>
                           ELSE /\ ended[r] = <<>>
                                /\ timers[r] =
                                     <<t + MODEM_LATENCY + n * CHUNK_INTERVAL>>

\* C13 witness: a form without a name was answered through the throttle, in
\* one piece of 332 bytes 120 ms after the handler ran, and a form with a
\* message of white space was answered with turbo=1.
C13_Witness ==
    \E r, p \in Reqs :
        /\ NothingToSign(r) /\ reqBody[r] = 1 /\ wrapped[r]
        /\ Len(sink[r]) = 1 /\ Len(sink[r][1].data) = 332 /\ ended[r] # <<>>
        /\ NothingToSign(p) /\ reqBody[p] = 2 /\ turbo[p] = "1"
        /\ ended[p] # <<>>

\* the requests the home page route has handled
Homes == {r \in Reqs : route[r] = "home"}

\* C18: the count in the counter file is the count it held when the server
\* started plus the number of home page requests handled so far, whatever
\* the other requests and the pending timers; the counts returned to these
\* requests are the next numbers after the starting count, each once, and
\* the page sent to a request shows its count; while no home page request
\* has been handled the file is the one the server started with.
C18_CounterCountsHomes ==
    LET c0 == ReadCounter(counter0)
        N == Cardinality(Homes)
    IN  /\ ReadCounter(counterFile) = c0 + N
        /\ N = 0 => counterFile = counter0
        /\ {shown[r] : r \in Homes} = (c0 + 1) .. (c0 + N)
        /\ \A r \in Reqs :
               IF r \in Homes
               THEN /\ sent[r] = SubSeq(IndexHtml, 1, 300)
                                    \o PadStart(ToDigits(shown[r]), 7, 48)
                                    \o SubSeq(IndexHtml, 323, Len(IndexHtml))
                    /\ ended[r] # <<>> => Delivered(r) = sent[r]
               ELSE shown[r] = 0

\* C18 witness: the counter file of the seed (9999999); the first piece of a
\* home page showing 10000000 is out and its timer is pending when another
\* request gets 10000001.
C18_Witness ==
    \E r, p \in Homes :
        /\ shown[r] = 10000000 /\ shown[p] = 10000001
        /\ Len(sink[r]) = 1 /\ timers[r] # <<>>
        /\ p > r

\* the name and the message, trimmed, are not empty, the name has no more
\* than 50 characters and the message no more than 1000
Acceptable(form) ==
    LET name == Trim(OrEmpty(form.name))
        message == Trim(OrEmpty(form.message))
    IN  /\ name # <<>> /\ message # <<>>
        /\ Len(name) <= 50 /\ Len(message) <= 1000

\* C19: the entries read from the entries file are the entries the file held
\* when the server started, followed by one entry for every acceptable form
\* handled so far, in the order in which they were handled: the entry made
\* of the trimmed name and message, the URL, the favorite and the date of
\* the form.  An acceptable form is answered with a redirect, any other form
\* with status 400 and no redirect; while no acceptable form has been handled
\* the file is the one the server started with.
C19_EntriesAppended ==
    LET old == ReadEntries(entries0)
        new == ReadEntries(entriesFile)
        acc == SelectSeq(submissions, LAMBDA x : Acceptable(Forms[reqBody[x.r]]))
    IN  /\ Len(new) = Len(old) + Len(acc)
        /\ SubSeq(new, 1, Len(old)) = old
        /\ \A k \in 1 .. Len(acc) :
               LET form == Forms[reqBody[acc[k].r]]
                   e == new[Len(old) + k]
               IN  /\ e.name = Trim(OrEmpty(form.name))
                   /\ e.message = Trim(OrEmpty(form.message))
                   /\ e = Entry(form, acc[k].at)
        /\ Len(acc) = 0 => entriesFile = entries0
        /\ \A r \in Reqs :
               route[r] = "sign" =>
                   IF Acceptable(Forms[reqBody[r]])
                   THEN redirected[r] /\ status[r] = 302
                   ELSE ~redirected[r] /\ status[r] = 400

\* C19 witness: the file held one entry; a form with a name of 50 and a
\* message of 1000 characters and then a form with quotes and a line break
\* were accepted, and the file holds the three entries.
C19_Witness ==
    LET new == ReadEntries(entriesFile)
    IN  /\ Len(ReadEntries(entries0)) = 1
        /\ Len(new) = 3
        /\ Len(new[2].name) = 50 /\ Len(new[2].message) = 1000
        /\ new[3].message = Trim(ShortMessage.val)
        /\ \A r \in Reqs : redirected[r]

====
